---- MODULE Spec2Model ----
(***************************************************************************)
(* The realtime notification channel of smart-expense-tracker, in its two  *)
(* implementations:                                                        *)
(*   "provider"  WebSocketProvider   (contexts/WebSocketContext)            *)
(*   "hook"      useWebSocket        (hooks/useWebSocket.ts)                *)
(* Both are single-threaded and event-driven: every action below is one    *)
(* handler or one API call running to completion.  The browser's WebSocket *)
(* objects, timers and intervals are the environment; several sockets can  *)
(* be alive at once because close() only starts the closing of a socket    *)
(* and its close event is delivered later.                                 *)
(*                                                                         *)
(* The REST client (lib/api.ts) is modelled beside it: the response        *)
(* interceptor of apiClient, which answers a 401 with one token refresh    *)
(* and one replay of the request.                                          *)
(***************************************************************************)
EXTENDS Integers, Sequences, FiniteSets, TLC

\* ---------------------------------------------------------------- bounds
\* The lifecycle specification bounds the WebSocket objects not yet closed,
\* the timeouts pending and the intervals active at one time; the full
\* specification, which adds the registry and the dispatch, uses the smaller
\* Few* bounds.
MaxSockets == 2
MaxTimers == 2
MaxIntervals == 2
FewSockets == 2
FewTimers == 1
FewIntervals == 1
MaxHandles == 2
\* The REST specification: the requests issued, and a cap on the refreshes
\* one request may start (the client itself never starts more than one).
MaxRequests == 2
MaxRefreshes == 3

\* ------------------------------------------------------ program constants
maxReconnectAttempts == 5
reconnectDelay == 3000
NormalClosure == 1000

Impls == {"provider", "hook"}
Callbacks == {"A", "B"}
OptionNames == {"onDocumentCompleted", "onBannerUpdate"}

VARIABLES
    impl,               \* which implementation this behaviour runs
    effect,             \* the mount effect: "idle" (not run / cleaned up) or "mounted"
    ws,                 \* ws.current: 0 is null, else an index of sockets
    sockets,            \* the WebSocket objects: the state of each
    reconnectTimeout,   \* reconnectTimeout.current: 0 is undefined, else a timer id
    timers,             \* the pending timeouts, oldest first: [id, delay]
    reconnectAttempts,  \* reconnectAttempts.current
    pingInterval,       \* provider's pingInterval.current: 0 is undefined
    intervals,          \* the intervals: TRUE while active
    isConnectedRef,     \* provider's isConnectedRef.current
    isUnmounted,        \* provider's isUnmounted.current
    subscribers,        \* provider's subscribers.current, a Set in insertion order
    handles,            \* the unsubscribe closures returned so far: [cb, called,
                        \* active]; active (history) marks the subscribe call
                        \* that registered cb, until cb is unsubscribed
    options,            \* hook: the consumer callbacks given in options
    \* history variables, read by the properties only
    lastEvent,          \* what the last handler or call did
    disconnected,       \* disconnect() was called and connect()/mount not since
    exhausted,          \* a close hit the retry ceiling and connect()/mount not since
    live,               \* callbacks whose last registry operation was a subscribe
    \* the REST client
    localStorage,       \* the stored tokens: [access, refresh], "none" when absent
    requests,           \* the requests made through apiClient, one record each
    location,           \* window.location: "app" or "/login"
    lastResponse        \* history: the reply the interceptor handled last

connVars == <<ws, sockets, reconnectTimeout, timers, reconnectAttempts,
              pingInterval, intervals, isConnectedRef, isUnmounted>>
registryVars == <<subscribers, handles, live>>
restVars == <<localStorage, requests, location, lastResponse>>
channelVars == <<impl, effect, ws, sockets, reconnectTimeout, timers,
                 reconnectAttempts, pingInterval, intervals, isConnectedRef,
                 isUnmounted, subscribers, handles, options, lastEvent,
                 disconnected, exhausted, live>>
vars == <<impl, effect, ws, sockets, reconnectTimeout, timers, reconnectAttempts,
          pingInterval, intervals, isConnectedRef, isUnmounted, subscribers,
          handles, options, lastEvent, disconnected, exhausted, live,
          localStorage, requests, location, lastResponse>>

\* ---------------------------------------------------------------- helpers
Range(s) == {s[i] : i \in 1..Len(s)}

RECURSIVE Without(_, _)
Without(s, x) ==
    IF s = <<>> THEN <<>>
    ELSE IF Head(s) = x THEN Without(Tail(s), x)
    ELSE <<Head(s)>> \o Without(Tail(s), x)

\* ------------------------------------------------------------ environment
\* Sockets and intervals are named by their index in a sequence.  The
\* program keeps no reference to a closed socket or a cleared interval except
\* in the ref that the creation of the next one overwrites, so a new object
\* takes the lowest index whose object is dead.
FreeSlot(seq, dead) ==
    IF \E i \in 1..Len(seq) : seq[i] = dead
    THEN CHOOSE i \in 1..Len(seq) :
            seq[i] = dead /\ \A j \in 1..(i - 1) : seq[j] # dead
    ELSE Len(seq) + 1

Put(seq, i, v) == IF i <= Len(seq) THEN [seq EXCEPT ![i] = v] ELSE Append(seq, v)

\* A WebSocket object is in one of five states.  readyState shows CLOSING for
\* both a closing handshake ("CLOSING") and a connection attempt that close()
\* aborted before it was established ("ABORTING").
ReadyState(sock) == IF sock = "ABORTING" THEN "CLOSING" ELSE sock

\* WebSocket.close(): an open socket starts the closing handshake, a
\* connecting one fails its connection, otherwise nothing.
SocketClose(socks, s) ==
    IF socks[s] = "OPEN" THEN [socks EXCEPT ![s] = "CLOSING"]
    ELSE IF socks[s] = "CONNECTING" THEN [socks EXCEPT ![s] = "ABORTING"]
    ELSE socks

NewSocket == "CONNECTING"

\* The close codes a close event can carry: a connection that was never
\* established fails with 1006; an established one closes with the peer's
\* code, with 1005 (no code in the close frame) or with 1006 (connection lost).
AbnormalCodes == {1005, 1006}

CloseCodes(sock) ==
    IF sock \in {"OPEN", "CLOSING"}
    THEN {NormalClosure} \cup AbnormalCodes
    ELSE {1006}

\* setTimeout returns an id that no pending timeout has.
NewTimerId(ts) ==
    CHOOSE i \in 1..(Len(ts) + 1) :
       /\ \A k \in 1..Len(ts) : ts[k].id # i
       /\ \A j \in 1..(i - 1) : \E k \in 1..Len(ts) : ts[k].id = j

\* clearTimeout / clearInterval: a dead or unknown id is ignored.
ClearTimeout(ts, id) == SelectSeq(ts, LAMBDA x : x.id # id)

\* The k-th pending timeout can be the next to fire unless an older one has
\* a delay that is not longer.
MayFire(ts, k) == \A j \in 1..(k - 1) : ts[j].delay > ts[k].delay

ClearInterval(is, id) ==
    IF id \in 1..Len(is) THEN [is EXCEPT ![id] = FALSE] ELSE is

PendingTimers == {timers[k].id : k \in 1..Len(timers)}
ActiveIntervals == {i \in 1..Len(intervals) : intervals[i]}
LiveSockets(socks) == {s \in 1..Len(socks) : socks[s] # "CLOSED"}

\* WebSocket.send(): throws InvalidStateError on a connecting socket,
\* transmits on an open one, and silently discards on a closing or closed one.
SocketSend(sock) ==
    [sent |-> sock = "OPEN", threw |-> sock = "CONNECTING"]

\* (mutant) the tick sends without looking at the socket
KeepaliveTickUnchecked(cur, socks) ==
    IF cur # 0 THEN SocketSend(socks[cur]) ELSE [sent |-> FALSE, threw |-> TRUE]

\* The body of the keepalive interval:
\* if (ws.current?.readyState === WebSocket.OPEN) ws.current.send('ping')
KeepaliveTick(cur, socks) ==
    IF cur # 0 /\ ReadyState(socks[cur]) = "OPEN"
    THEN SocketSend(socks[cur])
    ELSE [sent |-> FALSE, threw |-> FALSE]

\* ----------------------------------------------------------------- frames
\* A text frame: the literal "pong", text that is not JSON, or a JSON object.
\* A JSON object is a record holding exactly the fields present in it.
DocFull == [type |-> "document_completed", document_id |-> "d1",
            filename |-> "a.pdf", message |-> "done"]
DocNoFilename == [type |-> "document_completed", document_id |-> "d1",
                  message |-> "done"]
DocNoId == [type |-> "document_completed", filename |-> "a.pdf",
            message |-> "done"]
DocNoMessage == [type |-> "document_completed", document_id |-> "d1",
                 filename |-> "a.pdf"]
DocEmptyFilename == [type |-> "document_completed", document_id |-> "d1",
                     filename |-> "", message |-> "done"]
BannerList == [type |-> "banner_update", banners |-> <<"x">>]
BannerNone == [type |-> "banner_update"]
OtherType == [type |-> "processing_started", document_id |-> "d1"]

JsonBodies == {DocFull, DocNoFilename, DocNoId, DocNoMessage, DocEmptyFilename,
               BannerList, BannerNone, OtherType}

Frames == {[kind |-> "pong"], [kind |-> "text"]}
          \cup {[kind |-> "json", body |-> b] : b \in JsonBodies}

\* event.data === 'pong'
IsPong(frame) == frame.kind = "pong"

\* JSON.parse(event.data): throws on text that is not JSON.
JSONParse(frame) ==
    IF frame.kind = "json" THEN [ok |-> TRUE, value |-> frame.body]
    ELSE [ok |-> FALSE]

Has(m, k) == k \in DOMAIN m
\* JavaScript truthiness of a string field: present and not "".
Truthy(m, k) == Has(m, k) /\ m[k] # ""


\* ------------------------------------------------------ subscriber registry
\* (mutant) an array push instead of a Set add
SetAddAlways(subs, cb) == Append(subs, cb)

\* (mutant) a new value is put in front of the others
SetAddFront(subs, cb) == IF cb \in Range(subs) THEN subs ELSE <<cb>> \o subs

\* Set.prototype.add: a value already in the Set keeps its place.
SetAdd(subs, cb) == IF cb \in Range(subs) THEN subs ELSE Append(subs, cb)

\* Set.prototype.delete
SetDelete(subs, cb) == Without(subs, cb)

\* --------------------------------------------------------------- dispatch
\* The result of running a piece of a message handler: the callbacks it
\* invoked, in order, each with its argument and whether it threw, and
\* whether an exception is propagating out of that piece.
NoDelivery == [invoked |-> <<>>, escaped |-> FALSE]
Thrown == [invoked |-> <<>>, escaped |-> TRUE]

Invocation(cb, arg, throwers) == [cb |-> cb, arg |-> arg, threw |-> cb \in throwers]

\* (mutant) no try/catch around the block
TryCatchNone(r) == r

\* try { ... } catch (error) { console.error(...) }
TryCatch(r) == [r EXCEPT !.escaped = FALSE]

\* callback(message), which throws when the callback does
Call(cb, arg, throwers) ==
    [invoked |-> <<Invocation(cb, arg, throwers)>>, escaped |-> cb \in throwers]

\* (mutant) the callback is called without its own try/catch
CallUnguarded(cb, message, throwers) == Call(cb, message, throwers)

\* try { callback(message) } catch (error) { console.error(...) }
GuardedCall(cb, message, throwers) == TryCatch(Call(cb, message, throwers))

RECURSIVE NotifyAll(_, _, _)
\* subscribers.current.forEach(callback => { try { callback(message) } catch ... })
NotifyAll(subs, message, throwers) ==
    IF subs = <<>> THEN NoDelivery
    ELSE LET first == GuardedCall(Head(subs), message, throwers) IN
         IF first.escaped THEN first
         ELSE LET rest == NotifyAll(Tail(subs), message, throwers) IN
              [invoked |-> first.invoked \o rest.invoked, escaped |-> rest.escaped]

\* (mutant) the subscribers are notified of the raw frame before the pong check
ProviderOnMessageRaw(frame, subs, throwers) ==
    TryCatch(NotifyAll(subs, frame, throwers))

\* (mutant) the subscribers are told the type of the message only
ProviderOnMessageTypeOnly(frame, subs, throwers) ==
    TryCatch(IF IsPong(frame) THEN NoDelivery
             ELSE LET parsed == JSONParse(frame) IN
                  IF ~parsed.ok THEN Thrown
                  ELSE NotifyAll(subs, [type |-> parsed.value.type], throwers))

\* WebSocketProvider's ws.onmessage
ProviderOnMessage(frame, subs, throwers) ==
    TryCatch(IF IsPong(frame) THEN NoDelivery
             ELSE LET parsed == JSONParse(frame) IN
                  IF ~parsed.ok THEN Thrown
                  ELSE NotifyAll(subs, parsed.value, throwers))

\* options.<name>?.(arg): nothing when the consumer gave no such callback.
OptionalCall(opts, name, arg, throwers) ==
    IF name \in opts THEN Call(name, arg, throwers) ELSE NoDelivery

\* (mutant) document_completed is delivered as soon as document_id is there
HookSwitchIdOnly(message, opts, throwers) ==
    IF Has(message, "type") /\ message.type = "document_completed" THEN
        IF Truthy(message, "document_id")
        THEN OptionalCall(opts, "onDocumentCompleted",
                          [k \in DOMAIN message \ {"type"} |-> message[k]], throwers)
        ELSE NoDelivery
    ELSE IF Has(message, "type") /\ message.type = "banner_update" THEN
        IF Has(message, "banners")
        THEN OptionalCall(opts, "onBannerUpdate",
                          [banners |-> message.banners], throwers)
        ELSE NoDelivery
    ELSE NoDelivery

\* (mutant) the default branch hands the message to onDocumentCompleted
HookSwitchDefaultForwards(message, opts, throwers) ==
    IF Has(message, "type") /\ message.type = "document_completed" THEN
        IF Truthy(message, "document_id") /\ Truthy(message, "filename")
           /\ Truthy(message, "message")
        THEN OptionalCall(opts, "onDocumentCompleted",
                          [document_id |-> message.document_id,
                           filename |-> message.filename,
                           message |-> message.message], throwers)
        ELSE NoDelivery
    ELSE IF Has(message, "type") /\ message.type = "banner_update" THEN
        IF Has(message, "banners")
        THEN OptionalCall(opts, "onBannerUpdate",
                          [banners |-> message.banners], throwers)
        ELSE NoDelivery
    ELSE OptionalCall(opts, "onDocumentCompleted", message, throwers)

\* the switch (message.type) of useWebSocket's ws.onmessage
HookSwitch(message, opts, throwers) ==
    IF Has(message, "type") /\ message.type = "document_completed" THEN
        IF Truthy(message, "document_id") /\ Truthy(message, "filename")
           /\ Truthy(message, "message")
        THEN OptionalCall(opts, "onDocumentCompleted",
                          [document_id |-> message.document_id,
                           filename |-> message.filename,
                           message |-> message.message], throwers)
        ELSE NoDelivery
    ELSE IF Has(message, "type") /\ message.type = "banner_update" THEN
        IF Has(message, "banners")
        THEN OptionalCall(opts, "onBannerUpdate",
                          [banners |-> message.banners], throwers)
        ELSE NoDelivery
    ELSE NoDelivery

\* useWebSocket's ws.onmessage
HookOnMessage(frame, opts, throwers) ==
    TryCatch(IF IsPong(frame) THEN NoDelivery
             ELSE LET parsed == JSONParse(frame) IN
                  IF ~parsed.ok THEN Thrown
                  ELSE HookSwitch(parsed.value, opts, throwers))

\* --------------------------------------------------------------- connect()
\* (mutant) connect does not look at the torn-down flag
ProviderConnectIgnoresFlag(unmounted, token) ==
    IF ~token
    THEN [ws |-> ws, sockets |-> sockets, created |-> FALSE]
    ELSE LET closed == IF ws # 0 /\ ReadyState(sockets[ws]) # "CLOSED"
                       THEN SocketClose(sockets, ws) ELSE sockets
             new == FreeSlot(closed, "CLOSED")
         IN [ws |-> new, sockets |-> Put(closed, new, NewSocket), created |-> TRUE]

\* WebSocketProvider.connect
ProviderConnect(unmounted, token) ==
    IF unmounted \/ ~token
    THEN [ws |-> ws, sockets |-> sockets, created |-> FALSE]
    ELSE LET closed == IF ws # 0 /\ ReadyState(sockets[ws]) # "CLOSED"
                       THEN SocketClose(sockets, ws) ELSE sockets
             new == FreeSlot(closed, "CLOSED")
         IN [ws |-> new, sockets |-> Put(closed, new, NewSocket), created |-> TRUE]

\* (mutant) the existing connection is closed before the token is looked at
HookConnectCloseFirst(token) ==
    LET closed == IF ws # 0 THEN SocketClose(sockets, ws) ELSE sockets IN
    IF ~token
    THEN [ws |-> ws, sockets |-> closed, created |-> FALSE]
    ELSE LET new == FreeSlot(closed, "CLOSED")
         IN [ws |-> new, sockets |-> Put(closed, new, NewSocket), created |-> TRUE]

\* (mutant) the new connection is made without closing the existing one
HookConnectNoClose(token) ==
    IF ~token
    THEN [ws |-> ws, sockets |-> sockets, created |-> FALSE]
    ELSE LET new == FreeSlot(sockets, "CLOSED")
         IN [ws |-> new, sockets |-> Put(sockets, new, NewSocket), created |-> TRUE]

\* useWebSocket's connect
HookConnect(token) ==
    IF ~token
    THEN [ws |-> ws, sockets |-> sockets, created |-> FALSE]
    ELSE LET closed == IF ws # 0 THEN SocketClose(sockets, ws) ELSE sockets
             new == FreeSlot(closed, "CLOSED")
         IN [ws |-> new, sockets |-> Put(closed, new, NewSocket), created |-> TRUE]

Connect(unmounted, token) ==
    IF impl = "provider" THEN ProviderConnect(unmounted, token)
    ELSE HookConnect(token)

\* -------------------------------------------------------------- onclose
\* Whether the close handler schedules a reconnect.
ProviderShouldReconnect(unmounted, code, attempts) ==
    ~(unmounted \/ code = NormalClosure) /\ attempts < maxReconnectAttempts

\* (mutant) the close code is not looked at
HookShouldReconnectAnyCode(code, attempts) == attempts < maxReconnectAttempts

\* (mutant) only a lost connection (1006) is taken for an abnormal close
HookShouldReconnectLostOnly(code, attempts) ==
    code = 1006 /\ attempts < maxReconnectAttempts

HookShouldReconnect(code, attempts) ==
    code # NormalClosure /\ attempts < maxReconnectAttempts

ShouldReconnect(code) ==
    IF impl = "provider"
    THEN ProviderShouldReconnect(isUnmounted, code, reconnectAttempts)
    ELSE HookShouldReconnect(code, reconnectAttempts)

\* The handler reached the retry ceiling on a close it treats as abnormal.
CeilingHit(code) ==
    /\ code # NormalClosure
    /\ reconnectAttempts >= maxReconnectAttempts
    /\ impl = "provider" => ~isUnmounted

\* (mutant) the delay doubles with every attempt
BackoffDelayExponential(attempts) == reconnectDelay * 2 ^ (attempts - 1)

\* reconnectDelay * reconnectAttempts.current, read after the increment
BackoffDelay(attempts) == reconnectDelay * attempts

\* ------------------------------------------------------------ disconnect()
\* What disconnect() reads and writes.
ConnState ==
    [isUnmounted |-> isUnmounted, reconnectTimeout |-> reconnectTimeout,
     timers |-> timers, pingInterval |-> pingInterval, intervals |-> intervals,
     ws |-> ws, sockets |-> sockets]

\* (mutant) disconnect flips the flag instead of setting it
ProviderDisconnectToggle(st) ==
    [st EXCEPT
       !.isUnmounted = ~st.isUnmounted,
       !.timers = IF st.reconnectTimeout # 0
                  THEN ClearTimeout(st.timers, st.reconnectTimeout) ELSE st.timers,
       !.intervals = IF st.pingInterval # 0
                     THEN ClearInterval(st.intervals, st.pingInterval)
                     ELSE st.intervals,
       !.sockets = IF st.ws # 0 THEN SocketClose(st.sockets, st.ws) ELSE st.sockets,
       !.ws = 0]

\* WebSocketProvider's disconnect, from state st
ProviderDisconnect(st) ==
    [st EXCEPT
       !.isUnmounted = TRUE,
       !.timers = IF st.reconnectTimeout # 0
                  THEN ClearTimeout(st.timers, st.reconnectTimeout) ELSE st.timers,
       !.intervals = IF st.pingInterval # 0
                     THEN ClearInterval(st.intervals, st.pingInterval)
                     ELSE st.intervals,
       !.sockets = IF st.ws # 0 THEN SocketClose(st.sockets, st.ws) ELSE st.sockets,
       !.ws = 0]

\* useWebSocket's disconnect, from state st
HookDisconnect(st) ==
    [st EXCEPT
       !.timers = IF st.reconnectTimeout # 0
                  THEN ClearTimeout(st.timers, st.reconnectTimeout) ELSE st.timers,
       !.sockets = IF st.ws # 0 THEN SocketClose(st.sockets, st.ws) ELSE st.sockets,
       !.ws = 0]

DisconnectResult(st) ==
    IF impl = "provider" THEN ProviderDisconnect(st) ELSE HookDisconnect(st)

\* ------------------------------------------------------------------- Init
\* The channel before the mount effect has run.
ChannelInit ==
    /\ impl \in Impls
    /\ effect = "idle"
    /\ ws = 0
    /\ sockets = <<>>
    /\ reconnectTimeout = 0
    /\ timers = <<>>
    /\ reconnectAttempts = 0
    /\ pingInterval = 0
    /\ intervals = <<>>
    /\ isConnectedRef = FALSE
    /\ isUnmounted = FALSE
    /\ subscribers = <<>>
    /\ handles = <<>>
    /\ options \in (IF impl = "hook" THEN SUBSET OptionNames ELSE {{}})
    /\ lastEvent = [op |-> "init"]
    /\ disconnected = FALSE
    /\ exhausted = FALSE
    /\ live = {}

NoTokens == [access |-> "none", refresh |-> "none"]

NewRequest ==
    [phase |-> "idle", retry |-> FALSE, held |-> "none", sends |-> 0,
     refreshes |-> 0, error |-> "none", enhanced |-> FALSE]

\* The REST client with nobody logged in and no request made.
RestQuiet ==
    /\ localStorage = NoTokens
    /\ requests = [r \in 1..MaxRequests |-> NewRequest]
    /\ location = "app"
    /\ lastResponse = [kind |-> "none"]

Init == ChannelInit /\ RestQuiet

\* ---------------------------------------------------------------- actions
\* The mount effect: isUnmounted.current = false (provider); connect().
Mount(token, maxSockets) ==
    /\ effect = "idle"
    /\ LET r == Connect(FALSE, token) IN
       /\ Len(r.sockets) <= maxSockets
       /\ ws' = r.ws
       /\ sockets' = r.sockets
       /\ lastEvent' = [op |-> "mount", created |-> r.created, token |-> token]
    /\ effect' = "mounted"
    /\ isUnmounted' = FALSE
    /\ disconnected' = FALSE
    /\ exhausted' = FALSE
    /\ UNCHANGED <<restVars, impl, reconnectTimeout, timers, reconnectAttempts, pingInterval,
                   intervals, isConnectedRef, subscribers, handles, options, live>>

\* The hook returns connect to its consumer, who may call it while mounted.
ConnectCall(token, maxSockets) ==
    /\ impl = "hook"
    /\ effect = "mounted"
    /\ LET r == Connect(isUnmounted, token) IN
       /\ Len(r.sockets) <= maxSockets
       /\ ws' = r.ws
       /\ sockets' = r.sockets
       /\ lastEvent' = [op |-> "connect", created |-> r.created, token |-> token]
    /\ disconnected' = FALSE
    /\ exhausted' = FALSE
    /\ UNCHANGED <<restVars, impl, effect, reconnectTimeout, timers, reconnectAttempts,
                   pingInterval, intervals, isConnectedRef, isUnmounted, subscribers,
                   handles, options, live>>

\* (mutant) onopen leaves the reconnect counter as it is
OnOpenKeepsCounter(s, maxIntervals) ==
    /\ sockets[s] = "CONNECTING"
    /\ FreeSlot(intervals, FALSE) <= maxIntervals
    /\ sockets' = [sockets EXCEPT ![s] = "OPEN"]
    /\ reconnectAttempts' = reconnectAttempts
    /\ IF impl = "provider"
       THEN /\ isConnectedRef' = TRUE
            /\ LET cleared == IF pingInterval # 0
                               THEN ClearInterval(intervals, pingInterval)
                               ELSE intervals
                   new == FreeSlot(cleared, FALSE)
               IN /\ intervals' = Put(cleared, new, TRUE)
                  /\ pingInterval' = new
       ELSE /\ intervals' = Put(intervals, FreeSlot(intervals, FALSE), TRUE)
            /\ UNCHANGED <<isConnectedRef, pingInterval>>
    /\ lastEvent' = [op |-> "onopen", current |-> s = ws,
                     attempts |-> reconnectAttempts]
    /\ UNCHANGED <<restVars, impl, effect, ws, reconnectTimeout, timers, isUnmounted,
                   subscribers, handles, options, disconnected, exhausted, live>>

\* ws.onopen of socket s
OnOpen(s, maxIntervals) ==
    /\ sockets[s] = "CONNECTING"
    /\ FreeSlot(intervals, FALSE) <= maxIntervals
    /\ sockets' = [sockets EXCEPT ![s] = "OPEN"]
    /\ reconnectAttempts' = 0
    /\ IF impl = "provider"
       THEN /\ isConnectedRef' = TRUE
            /\ LET cleared == IF pingInterval # 0
                               THEN ClearInterval(intervals, pingInterval)
                               ELSE intervals
                   new == FreeSlot(cleared, FALSE)
               IN /\ intervals' = Put(cleared, new, TRUE)
                  /\ pingInterval' = new
       ELSE /\ intervals' = Put(intervals, FreeSlot(intervals, FALSE), TRUE)
            /\ UNCHANGED <<isConnectedRef, pingInterval>>
    /\ lastEvent' = [op |-> "onopen", current |-> s = ws,
                     attempts |-> reconnectAttempts]
    /\ UNCHANGED <<restVars, impl, effect, ws, reconnectTimeout, timers, isUnmounted,
                   subscribers, handles, options, disconnected, exhausted, live>>

\* One tick of keepalive interval i.
PingTick(i) ==
    /\ i \in ActiveIntervals
    /\ LET open == ws # 0 /\ ReadyState(sockets[ws]) = "OPEN" IN
       /\ intervals' =
            IF open THEN intervals
            ELSE IF impl = "provider"
                 THEN (IF pingInterval # 0 THEN ClearInterval(intervals, pingInterval)
                       ELSE intervals)
                 ELSE ClearInterval(intervals, i)
       /\ lastEvent' = [op |-> "ping", sent |-> KeepaliveTick(ws, sockets).sent,
                        threw |-> KeepaliveTick(ws, sockets).threw]
    /\ UNCHANGED <<restVars, impl, effect, ws, sockets, reconnectTimeout, timers,
                   reconnectAttempts, pingInterval, isConnectedRef, isUnmounted,
                   subscribers, handles, options, disconnected, exhausted, live>>

\* ws.onmessage of socket s for a frame; throwers are the callbacks that throw
\* when invoked with it.
OnMessage(s, frame, throwers) ==
    /\ sockets[s] = "OPEN"
    /\ LET r == IF impl = "provider"
                THEN ProviderOnMessage(frame, subscribers, throwers)
                ELSE HookOnMessage(frame, options, throwers)
       IN lastEvent' = [op |-> "onmessage", frame |-> frame,
                        invoked |-> r.invoked, escaped |-> r.escaped]
    /\ UNCHANGED <<restVars, impl, effect, ws, sockets, reconnectTimeout, timers,
                   reconnectAttempts, pingInterval, intervals, isConnectedRef,
                   isUnmounted, subscribers, handles, options, disconnected,
                   exhausted, live>>

\* ws.onerror of socket s: logs (and the hook tells options.onError).
OnError(s) ==
    /\ sockets[s] # "CLOSED"
    /\ lastEvent' = [op |-> "onerror"]
    /\ UNCHANGED <<restVars, impl, effect, ws, sockets, reconnectTimeout, timers,
                   reconnectAttempts, pingInterval, intervals, isConnectedRef,
                   isUnmounted, subscribers, handles, options, disconnected,
                   exhausted, live>>

\* ws.onclose of socket s with a close code
OnClose(s, code, maxTimers) ==
    /\ sockets[s] # "CLOSED"
    /\ code \in CloseCodes(sockets[s])
    /\ sockets' = [sockets EXCEPT ![s] = "CLOSED"]
    /\ IF impl = "provider"
       THEN /\ isConnectedRef' = FALSE
            /\ intervals' = IF pingInterval # 0
                            THEN ClearInterval(intervals, pingInterval)
                            ELSE intervals
       ELSE UNCHANGED <<isConnectedRef, intervals>>
    /\ IF ShouldReconnect(code)
       THEN /\ Len(timers) < maxTimers
            /\ reconnectAttempts' = reconnectAttempts + 1
            /\ timers' = Append(timers,
                                [id |-> NewTimerId(timers),
                                 delay |-> BackoffDelay(reconnectAttempts + 1)])
            /\ reconnectTimeout' = NewTimerId(timers)
            /\ UNCHANGED exhausted
       ELSE /\ UNCHANGED <<reconnectAttempts, timers, reconnectTimeout>>
            /\ exhausted' = (exhausted \/ CeilingHit(code))
    /\ lastEvent' = [op |-> "onclose", code |-> code, current |-> s = ws,
                     scheduled |-> ShouldReconnect(code)]
    /\ UNCHANGED <<restVars, impl, effect, ws, pingInterval, isUnmounted, subscribers,
                   handles, options, disconnected, live>>

\* The k-th pending reconnect timeout elapses: connect().
ReconnectTimerFire(k, token, maxSockets) ==
    /\ k \in 1..Len(timers)
    /\ MayFire(timers, k)
    /\ LET r == Connect(isUnmounted, token) IN
       /\ Len(r.sockets) <= maxSockets
       /\ ws' = r.ws
       /\ sockets' = r.sockets
       /\ lastEvent' = [op |-> "timer", created |-> r.created, token |-> token]
    /\ timers' = ClearTimeout(timers, timers[k].id)
    /\ UNCHANGED <<restVars, impl, effect, reconnectTimeout, reconnectAttempts, pingInterval,
                   intervals, isConnectedRef, isUnmounted, subscribers, handles,
                   options, disconnected, exhausted, live>>

\* (mutant) disconnect empties the subscriber registry
DisconnectClearsRegistry ==
    /\ LET r == DisconnectResult(ConnState) IN
       /\ isUnmounted' = r.isUnmounted
       /\ reconnectTimeout' = r.reconnectTimeout
       /\ timers' = r.timers
       /\ pingInterval' = r.pingInterval
       /\ intervals' = r.intervals
       /\ sockets' = r.sockets
       /\ ws' = r.ws
    /\ disconnected' = TRUE
    /\ lastEvent' = [op |-> "disconnect", again |-> disconnected]
    /\ subscribers' = <<>>
    /\ UNCHANGED <<restVars, impl, reconnectAttempts, isConnectedRef, handles,
                   options, exhausted, live>>

\* disconnect()
Disconnect ==
    /\ LET r == DisconnectResult(ConnState) IN
       /\ isUnmounted' = r.isUnmounted
       /\ reconnectTimeout' = r.reconnectTimeout
       /\ timers' = r.timers
       /\ pingInterval' = r.pingInterval
       /\ intervals' = r.intervals
       /\ sockets' = r.sockets
       /\ ws' = r.ws
    /\ disconnected' = TRUE
    /\ lastEvent' = [op |-> "disconnect", again |-> disconnected]
    /\ UNCHANGED <<restVars, impl, reconnectAttempts, isConnectedRef, subscribers, handles,
                   options, exhausted, live>>

\* The cleanup of the mount effect: disconnect().
Unmount ==
    /\ effect = "mounted"
    /\ effect' = "idle"
    /\ Disconnect

\* The hook returns disconnect to its consumer, who may call it while mounted.
DisconnectCall ==
    /\ impl = "hook"
    /\ effect = "mounted"
    /\ UNCHANGED effect
    /\ Disconnect

\* subscribe(callback): returns the unsubscribe closure, handle Len(handles) + 1.
Subscribe(cb) ==
    /\ impl = "provider"
    /\ Len(handles) < MaxHandles
    /\ subscribers' = SetAdd(subscribers, cb)
    /\ handles' = Append(handles, [cb |-> cb, called |-> FALSE,
                                   active |-> cb \notin live])
    /\ live' = live \cup {cb}
    /\ lastEvent' = [op |-> "subscribe", cb |-> cb]
    /\ UNCHANGED <<restVars, impl, effect, ws, sockets, reconnectTimeout, timers,
                   reconnectAttempts, pingInterval, intervals, isConnectedRef,
                   isUnmounted, options, disconnected, exhausted>>

\* A call of the unsubscribe closure h.
Unsubscribe(h) ==
    /\ impl = "provider"
    /\ h \in 1..Len(handles)
    /\ subscribers' = SetDelete(subscribers, handles[h].cb)
    /\ handles' = [k \in 1..Len(handles) |->
                      [cb |-> handles[k].cb,
                       called |-> handles[k].called \/ k = h,
                       active |-> handles[k].active /\ handles[k].cb # handles[h].cb]]
    /\ live' = live \ {handles[h].cb}
    /\ lastEvent' = [op |-> "unsubscribe", handle |-> h,
                     again |-> handles[h].called]
    /\ UNCHANGED <<restVars, impl, effect, ws, sockets, reconnectTimeout, timers,
                   reconnectAttempts, pingInterval, intervals, isConnectedRef,
                   isUnmounted, options, disconnected, exhausted>>

AllCloseCodes == {NormalClosure} \cup AbnormalCodes

\* The connection manager alone: mount, connect, the transport's events, the
\* two timers and disconnect, with no consumer callback registered.
InitLifecycle == Init /\ options = {}

NextLifecycle ==
    \/ \E token \in BOOLEAN : Mount(token, MaxSockets)
    \/ \E token \in BOOLEAN : ConnectCall(token, MaxSockets)
    \/ \E s \in 1..Len(sockets) : OnOpen(s, MaxIntervals)
    \/ \E i \in 1..Len(intervals) : PingTick(i)
    \/ \E s \in 1..Len(sockets), code \in {NormalClosure, 1006} :
          OnClose(s, code, MaxTimers)
    \/ \E k \in 1..Len(timers), token \in BOOLEAN :
          ReconnectTimerFire(k, token, MaxSockets)
    \/ Unmount
    \/ DisconnectCall

SpecLifecycle == InitLifecycle /\ [][NextLifecycle]_vars

\* The whole channel: the connection manager, the subscriber registry and the
\* message dispatch.
Next ==
    \/ \E token \in BOOLEAN : Mount(token, FewSockets)
    \/ \E token \in BOOLEAN : ConnectCall(token, FewSockets)
    \/ \E s \in 1..Len(sockets) : OnOpen(s, FewIntervals)
    \/ \E i \in 1..Len(intervals) : PingTick(i)
    \/ \E s \in 1..Len(sockets), frame \in Frames :
          \E throwers \in SUBSET (IF impl = "provider" THEN Range(subscribers)
                                  ELSE options) :
             OnMessage(s, frame, throwers)
    \/ \E s \in 1..Len(sockets) : OnError(s)
    \/ \E s \in 1..Len(sockets), code \in AllCloseCodes : OnClose(s, code, FewTimers)
    \/ \E k \in 1..Len(timers), token \in BOOLEAN :
          ReconnectTimerFire(k, token, FewSockets)
    \/ Unmount
    \/ DisconnectCall
    \/ \E cb \in Callbacks : Subscribe(cb)
    \/ \E h \in 1..Len(handles) : Unsubscribe(h)

Spec == Init /\ [][Next]_vars

\* ------------------------------------------------------------ REST client
\* Token storage (lib/auth).
GetRefreshToken(store) == store.refresh
SetTokens(store, accessToken, refreshToken) ==
    [access |-> accessToken, refresh |-> refreshToken]
RemoveTokens(store) == NoTokens

\* The status of a failed request: an HTTP error status, or 0 for a request
\* that got no response (error.response is undefined).
ErrorStatuses == {0, 401, 403, 500}

\* Promise.reject(error) at the end of the interceptor, after the 403 branch.
Reject(req, status) ==
    [req EXCEPT !.phase = "rejected", !.error = "response",
                !.enhanced = (status = 403)]

\* The second test of the interceptor:
\* if (error.response?.status === 401 && !getRefreshToken())
NoRefreshTokenLeft(store, status) ==
    status = 401 /\ GetRefreshToken(store) = "none"

\* (mutant) the interceptor does not mark the request as retried
OnRejectedNoMark(store, req, status) ==
    IF status = 401 /\ ~req.retry /\ GetRefreshToken(store) # "none"
    THEN [store |-> store, location |-> location,
          req |-> [req EXCEPT !.phase = "refreshing",
                              !.held = GetRefreshToken(store),
                              !.refreshes = @ + 1]]
    ELSE [store |-> IF NoRefreshTokenLeft(store, status)
                    THEN RemoveTokens(store) ELSE store,
          location |-> IF NoRefreshTokenLeft(store, status)
                       THEN "/login" ELSE location,
          req |-> Reject(req, status)]

\* The response interceptor's error handler, up to its first await or its
\* return: the request as the interceptor leaves it, the storage and the
\* location.
OnRejected(store, req, status) ==
    IF status = 401 /\ ~req.retry /\ GetRefreshToken(store) # "none"
    THEN [store |-> store, location |-> location,
          req |-> [req EXCEPT !.retry = TRUE, !.phase = "refreshing",
                              !.held = GetRefreshToken(store),
                              !.refreshes = @ + 1]]
    ELSE [store |-> IF NoRefreshTokenLeft(store, status)
                    THEN RemoveTokens(store) ELSE store,
          location |-> IF NoRefreshTokenLeft(store, status)
                       THEN "/login" ELSE location,
          req |-> [Reject(req, status) EXCEPT
                     !.retry = req.retry \/ status = 401]]

\* Login stores a token pair (setTokens); logout removes it (removeTokens).
Login ==
    /\ localStorage = NoTokens
    /\ localStorage' = SetTokens(localStorage, "stale", "r1")
    /\ location' = "app"
    /\ lastResponse' = [kind |-> "login"]
    /\ UNCHANGED <<requests, channelVars>>

Logout ==
    /\ localStorage # NoTokens
    /\ localStorage' = RemoveTokens(localStorage)
    /\ lastResponse' = [kind |-> "logout"]
    /\ UNCHANGED <<requests, location, channelVars>>

\* A caller makes request r through apiClient.
Send(r) ==
    /\ requests[r].phase = "idle"
    /\ requests' = [requests EXCEPT ![r].phase = "sent", ![r].sends = 1]
    /\ lastResponse' = [kind |-> "send", r |-> r]
    /\ UNCHANGED <<localStorage, location, channelVars>>

\* The server answers request r with a 2xx status: (response) => response.
Fulfil(r) ==
    /\ requests[r].phase = "sent"
    /\ requests' = [requests EXCEPT ![r].phase = "resolved"]
    /\ lastResponse' = [kind |-> "response", r |-> r, status |-> 200,
                        retried |-> requests[r].retry]
    /\ UNCHANGED <<localStorage, location, channelVars>>

\* Request r fails with a status (or with no response): the error handler.
Fail(r, status) ==
    /\ requests[r].phase = "sent"
    /\ requests[r].refreshes < MaxRefreshes
    /\ LET res == OnRejected(localStorage, requests[r], status) IN
       /\ requests' = [requests EXCEPT ![r] = res.req]
       /\ localStorage' = res.store
       /\ location' = res.location
    /\ lastResponse' = [kind |-> "response", r |-> r, status |-> status,
                        retried |-> requests[r].retry]
    /\ UNCHANGED channelVars

\* The refresh call of request r succeeds: setTokens, then the replay
\* apiClient(originalRequest).
RefreshOk(r) ==
    /\ requests[r].phase = "refreshing"
    /\ localStorage' = SetTokens(localStorage, "fresh", requests[r].held)
    /\ requests' = [requests EXCEPT ![r].phase = "sent", ![r].sends = @ + 1]
    /\ lastResponse' = [kind |-> "refresh", r |-> r, ok |-> TRUE]
    /\ UNCHANGED <<location, channelVars>>

\* The refresh call of request r fails: the catch block.
RefreshFailed(r) ==
    /\ requests[r].phase = "refreshing"
    /\ localStorage' = RemoveTokens(localStorage)
    /\ location' = "/login"
    /\ requests' = [requests EXCEPT ![r].phase = "rejected",
                                    ![r].error = "refresh"]
    /\ lastResponse' = [kind |-> "refresh", r |-> r, ok |-> FALSE]
    /\ UNCHANGED channelVars

\* The REST client alone; the channel stays unmounted.
InitRest == ChannelInit /\ impl = "hook" /\ options = {} /\ RestQuiet

NextRest ==
    \/ Login
    \/ Logout
    \/ \E r \in 1..MaxRequests : Send(r)
    \/ \E r \in 1..MaxRequests : Fulfil(r)
    \/ \E r \in 1..MaxRequests, status \in ErrorStatuses : Fail(r, status)
    \/ \E r \in 1..MaxRequests : RefreshOk(r)
    \/ \E r \in 1..MaxRequests : RefreshFailed(r)

SpecRest == InitRest /\ [][NextRest]_vars

\* ------------------------------------------------------------- properties
IsClose(e) == e.op = "onclose"
IsMessage(e) == e.op = "onmessage"

\* C1: once disconnect() has been called (and connect() not since), no close
\* event, whatever its code, increments the reconnect counter, schedules a
\* reconnect timer or adds a transport.
C1_NoReconnectAfterDisconnect ==
    [][(disconnected /\ IsClose(lastEvent'))
         => /\ reconnectAttempts' = reconnectAttempts
            /\ timers' = timers
            /\ reconnectTimeout' = reconnectTimeout
            /\ LiveSockets(sockets') \subseteq LiveSockets(sockets)]_vars

\* C2: at most 5 reconnect attempts are scheduled without an open in between:
\* the counter never exceeds 5, a close handled at counter 5 schedules nothing,
\* and once a close has hit the ceiling no timer creates a transport and no
\* close schedules a reconnect until connect() is called explicitly.
C2_CeilingIsTerminal ==
    [][/\ reconnectAttempts' <= maxReconnectAttempts
       /\ (IsClose(lastEvent') /\ reconnectAttempts = maxReconnectAttempts)
            => (timers' = timers /\ reconnectAttempts' = reconnectAttempts)
       /\ (exhausted /\ exhausted')
            => /\ ~(lastEvent'.op = "timer" /\ lastEvent'.created)
               /\ ~(IsClose(lastEvent') /\ lastEvent'.scheduled)]_vars

Invoked(e) == {e.invoked[i].cb : i \in 1..Len(e.invoked)}
IsJson(e) == IsMessage(e) /\ e.frame.kind = "json"

\* C3: a parseable, non-pong frame is delivered by the provider to exactly
\* the callbacks subscribed and not unsubscribed at delivery time, once each.
C3_ExactFanOut ==
    (impl = "provider" /\ IsJson(lastEvent))
      => /\ Invoked(lastEvent) = live
         /\ Len(lastEvent.invoked) = Cardinality(live)

C3_Witness ==
    /\ impl = "provider"
    /\ IsJson(lastEvent)
    /\ \E h \in 1..Len(handles) : handles[h].cb = "A" /\ handles[h].called
    /\ live = {"B"}
    /\ Len(lastEvent.invoked) = 1

\* C4: when a callback throws during a dispatch, every other registered
\* subscriber still receives the message, no error leaves the handler and
\* the connection state is unchanged.
C4_ThrowIsolated ==
    [][(IsMessage(lastEvent')
        /\ \E i \in 1..Len(lastEvent'.invoked) : lastEvent'.invoked[i].threw)
         => /\ impl = "provider" => Invoked(lastEvent') = Range(subscribers)
            /\ ~lastEvent'.escaped
            /\ UNCHANGED connVars]_vars

C4_Witness ==
    /\ impl = "provider"
    /\ IsMessage(lastEvent)
    /\ Len(lastEvent.invoked) = 2
    /\ lastEvent.invoked[1].threw
    /\ ~lastEvent.invoked[2].threw

\* C5: a second or later call of an unsubscribe handle leaves the registry
\* as it is, also when its callback was subscribed again in between.
C5_UnsubscribeOnce ==
    [][(lastEvent'.op = "unsubscribe" /\ lastEvent'.again)
         => subscribers' = subscribers]_vars

IncompleteDoc(e) ==
    /\ IsJson(e)
    /\ e.frame.body.type = "document_completed"
    /\ \E k \in {"document_id", "filename", "message"} : ~Has(e.frame.body, k)

\* C6 as claimed: a document_completed frame missing document_id, filename or
\* message reaches no subscriber and no consumer callback.
C6_IncompleteDocDropped == IncompleteDoc(lastEvent) => lastEvent.invoked = <<>>

\* C6 as amended: the hook drops such a frame; the provider hands it, like
\* every parseable frame, to each of its subscribers.
C6_HookDropsIncompleteDoc ==
    IncompleteDoc(lastEvent)
      => /\ impl = "hook" => lastEvent.invoked = <<>>
         /\ impl = "provider" => Invoked(lastEvent) = Range(subscribers)

C6_Witness ==
    /\ impl = "hook"
    /\ "onDocumentCompleted" \in options
    /\ IncompleteDoc(lastEvent)
    /\ ~Has(lastEvent.frame.body, "filename")
    /\ lastEvent.invoked = <<>>

UnknownType(e) ==
    IsJson(e) /\ e.frame.body.type \notin {"document_completed", "banner_update"}

\* C7 as claimed: a parseable frame of an unknown type reaches no subscriber
\* and no consumer callback.
C7_UnknownTypeDropped == UnknownType(lastEvent) => lastEvent.invoked = <<>>

\* C7 as amended: the hook drops a frame of an unknown type; the provider
\* hands it to each of its subscribers.
C7_HookDropsUnknownType ==
    UnknownType(lastEvent)
      => /\ impl = "hook" => lastEvent.invoked = <<>>
         /\ impl = "provider" => Invoked(lastEvent) = Range(subscribers)

C7_Witness ==
    /\ impl = "hook"
    /\ options = OptionNames
    /\ UnknownType(lastEvent)
    /\ lastEvent.invoked = <<>>

\* C8: the frame "pong" invokes no subscriber and no consumer callback.
C8_PongNotForwarded ==
    (IsMessage(lastEvent) /\ IsPong(lastEvent.frame)) => lastEvent.invoked = <<>>

C8_Witness ==
    /\ IsMessage(lastEvent)
    /\ IsPong(lastEvent.frame)
    /\ Len(subscribers) = 2

\* C9: a frame that is neither "pong" nor JSON invokes no callback, lets no
\* error out of the handler and leaves the transport, the reconnect counter
\* and the timers as they are.
C9_BadFrameDropped ==
    [][(IsMessage(lastEvent') /\ lastEvent'.frame.kind = "text")
         => /\ lastEvent'.invoked = <<>>
            /\ ~lastEvent'.escaped
            /\ UNCHANGED connVars]_vars

C9_Witness ==
    /\ IsMessage(lastEvent)
    /\ lastEvent.frame.kind = "text"
    /\ ws # 0
    /\ sockets[ws] = "OPEN"
    /\ (subscribers # <<>> \/ options # {})

\* C10: disconnect() is idempotent: from every reachable state a second call
\* yields the state of the first, and the state a call has just left is one
\* that a further call does not change.
C10_DisconnectIdempotent ==
    /\ DisconnectResult(DisconnectResult(ConnState)) = DisconnectResult(ConnState)
    /\ lastEvent.op = "disconnect" => DisconnectResult(ConnState) = ConnState

C10_Witness ==
    /\ lastEvent.op = "disconnect"
    /\ lastEvent.again
    /\ reconnectTimeout # 0
    /\ timers # <<>>

IsConnect(e) == e.op \in {"mount", "connect", "timer"}

\* C11: connect() without a credential is a no-op: from every reachable state
\* it returns the transport and the sockets it found, and a step whose
\* connect() created nothing leaves the current transport, every socket, the
\* reconnect counter and the subscriber registry as they were and adds no timer.
C11_NoTokenNoOp ==
    [][/\ Connect(isUnmounted, FALSE)
            = [ws |-> ws, sockets |-> sockets, created |-> FALSE]
       /\ (IsConnect(lastEvent') /\ ~lastEvent'.created)
            => /\ ws' = ws
               /\ sockets' = sockets
               /\ reconnectAttempts' = reconnectAttempts
               /\ reconnectTimeout' = reconnectTimeout
               /\ Range(timers') \subseteq Range(timers)
               /\ lastEvent'.op # "timer" => timers' = timers
               /\ UNCHANGED registryVars]_vars

C11_Witness ==
    /\ impl = "hook"
    /\ lastEvent.op = "connect"
    /\ ~lastEvent.created
    /\ ws # 0
    /\ sockets[ws] \in {"CONNECTING", "OPEN"}
    /\ timers # <<>>

\* C12: disconnect() cancels every pending reconnect timer: none is pending
\* in the state it leaves.
C12_DisconnectCancelsAllTimers ==
    [][lastEvent'.op = "disconnect" => timers' = <<>>]_vars

\* C13: disconnect() right after connect(), with the only transport still
\* connecting: the close event of that transport schedules nothing, and the
\* manager is left with no transport and no pending timer.
C13_DisconnectBeforeOpen ==
    [][(/\ disconnected
        /\ IsClose(lastEvent')
        /\ ws = 0
        /\ timers = <<>>
        /\ \E s \in 1..Len(sockets) :
              /\ LiveSockets(sockets) = {s}
              /\ sockets[s] = "ABORTING"
              /\ sockets'[s] = "CLOSED")
         => /\ ~lastEvent'.scheduled
            /\ reconnectAttempts' = reconnectAttempts
            /\ timers' = <<>>
            /\ ws' = 0
            /\ LiveSockets(sockets') = {}]_vars

\* C14: every open event sets the reconnect counter to 0.
C14_OpenResetsCounter ==
    [][lastEvent'.op = "onopen" => reconnectAttempts' = 0]_vars

C14_Witness ==
    /\ lastEvent.op = "onopen"
    /\ lastEvent.attempts >= 2
    /\ reconnectAttempts = 0

IsAbnormalClose(e) == IsClose(e) /\ e.code # NormalClosure

\* The step handles an abnormal close, adds 1 to the counter and adds one
\* timer, which the manager remembers, to the pending ones.
IncrementsAndSchedulesOne ==
    /\ reconnectAttempts' = reconnectAttempts + 1
    /\ Len(timers') = Len(timers) + 1
    /\ SubSeq(timers', 1, Len(timers)) = timers
    /\ reconnectTimeout' = timers'[Len(timers')].id

IsBannerList(e) == IsJson(e) /\ e.frame.body = BannerList

\* Every invocation of e got the banners list of the frame.
GotBanners(e) ==
    \A i \in 1..Len(e.invoked) :
       /\ Has(e.invoked[i].arg, "banners")
       /\ e.invoked[i].arg.banners = e.frame.body.banners

\* C17: a banner_update frame with a banners list reaches both A and B when
\* both are subscribed (the hook: its onBannerUpdate when given), once each,
\* with the banners list of the frame.
C17_BannerReachesBoth ==
    IsBannerList(lastEvent)
      => /\ GotBanners(lastEvent)
         /\ (impl = "provider" /\ live = Callbacks)
              => /\ Invoked(lastEvent) = Callbacks
                 /\ Len(lastEvent.invoked) = 2
         /\ (impl = "hook" /\ "onBannerUpdate" \in options)
              => /\ Invoked(lastEvent) = {"onBannerUpdate"}
                 /\ Len(lastEvent.invoked) = 1

C17_Witness ==
    /\ impl = "provider"
    /\ IsBannerList(lastEvent)
    /\ live = Callbacks
    /\ Len(lastEvent.invoked) = 2

Established(socks) == {s \in 1..Len(socks) : socks[s] \in {"CONNECTING", "OPEN"}}

\* C18: a connect() that creates a transport first closes the current one if
\* it is connecting or open, and at most one transport is connecting or open
\* in every reachable state.
C18_AtMostOneTransport ==
    [][/\ Cardinality(Established(sockets)) <= 1
       /\ Cardinality(Established(sockets')) <= 1
       /\ (IsConnect(lastEvent') /\ lastEvent'.created /\ ws \in Established(sockets))
            => /\ ws' # ws
               /\ sockets'[ws] \in {"ABORTING", "CLOSING"}
               /\ Established(sockets') = {ws'}]_vars

C18_Witness ==
    /\ lastEvent.op = "connect"
    /\ lastEvent.created
    /\ ws # 0
    /\ sockets[ws] = "CONNECTING"
    /\ \E s \in 1..Len(sockets) : sockets[s] = "CLOSING"

\* C19: a keepalive tick sends "ping" exactly when the current transport is
\* open; with no transport, or one connecting, closing or closed, it sends
\* nothing, and it never throws.
C19_PingOnlyWhenOpen ==
    lastEvent.op = "ping"
      => /\ ~lastEvent.threw
         /\ lastEvent.sent <=> (ws # 0 /\ sockets[ws] = "OPEN")

C19_Witness ==
    /\ lastEvent.op = "ping"
    /\ ~lastEvent.sent
    /\ ws # 0
    /\ sockets[ws] = "CONNECTING"

\* C20: no keepalive interval is active in the state disconnect() leaves.
C20_DisconnectStopsKeepalive ==
    lastEvent.op = "disconnect" => ActiveIntervals = {}

\* The callbacks registered, in the order of the subscribe calls that
\* registered them.
RECURSIVE RegistrationOrder(_)
RegistrationOrder(hs) ==
    IF hs = <<>> THEN <<>>
    ELSE IF Head(hs).active THEN <<Head(hs).cb>> \o RegistrationOrder(Tail(hs))
    ELSE RegistrationOrder(Tail(hs))

InvokedOrder(e) == [i \in 1..Len(e.invoked) |-> e.invoked[i].cb]

\* C21: a dispatched message invokes exactly the callbacks registered in the
\* state in which it arrives, in the order of the subscribe calls that
\* registered them; a callback registered by a later subscribe call is not
\* among them.
C21_RegistrationOrder ==
    [][(impl = "provider" /\ IsJson(lastEvent'))
         => InvokedOrder(lastEvent') = RegistrationOrder(handles)]_vars

C21_Witness ==
    /\ impl = "provider"
    /\ IsJson(lastEvent)
    /\ InvokedOrder(lastEvent) = <<"B", "A">>

C23_NormalCloseNoReconnect ==
    [][(IsClose(lastEvent') /\ lastEvent'.code = NormalClosure)
         => /\ ~lastEvent'.scheduled
            /\ reconnectAttempts' = reconnectAttempts
            /\ timers' = timers
            /\ reconnectTimeout' = reconnectTimeout]_vars

C23_Witness ==
    /\ IsClose(lastEvent)
    /\ lastEvent.code = NormalClosure
    /\ ~disconnected
    /\ reconnectAttempts >= 1
    /\ reconnectAttempts < maxReconnectAttempts

\* C24: whenever the current transport is open a keepalive interval is active.
C24_KeepaliveWhileOpen ==
    (ws # 0 /\ sockets[ws] = "OPEN") => ActiveIntervals # {}

ConnectionOps ==
    {"mount", "connect", "onopen", "onclose", "onerror", "timer", "ping",
     "disconnect"}

\* C25: subscribe and unsubscribe leave the connection (transport, counter,
\* timers, keepalive, flags) as it is; mount, connect, open, close, error,
\* timer, keepalive tick and disconnect leave the subscriber registry as it is.
C25_RegistryIndependent ==
    [][/\ lastEvent'.op \in {"subscribe", "unsubscribe"} => UNCHANGED connVars
       /\ lastEvent'.op \in ConnectionOps => UNCHANGED registryVars]_vars

C25_Witness ==
    /\ impl = "provider"
    /\ IsJson(lastEvent)
    /\ "A" \in Invoked(lastEvent)
    /\ reconnectTimeout # 0
    /\ \E s \in 1..Len(sockets) : sockets[s] = "CLOSED"

CompleteDoc(e) ==
    /\ IsJson(e)
    /\ e.frame.body.type = "document_completed"
    /\ \A k \in {"document_id", "filename", "message"} : Has(e.frame.body, k)

GotDocFields(e) ==
    \A i \in 1..Len(e.invoked) :
       \A k \in {"document_id", "filename", "message"} :
          Has(e.invoked[i].arg, k) /\ e.invoked[i].arg[k] = e.frame.body[k]

\* C26: a document_completed frame with document_id, filename and message
\* present, the empty string included, reaches the registered consumer (the
\* hook's onDocumentCompleted, each of the provider's subscribers) with
\* those three values.
C26_CompleteDocDelivered ==
    CompleteDoc(lastEvent)
      => /\ GotDocFields(lastEvent)
         /\ (impl = "hook" /\ "onDocumentCompleted" \in options)
              => Invoked(lastEvent) = {"onDocumentCompleted"}
         /\ impl = "provider" => Invoked(lastEvent) = Range(subscribers)

\* C27: the close event of a transport that is not the current one, while
\* there is a current one, changes neither the counter, the timers, the
\* keepalive nor the connected flag.
C27_StaleCloseIgnored ==
    [][(IsClose(lastEvent') /\ ~lastEvent'.current /\ ws # 0)
         => /\ reconnectAttempts' = reconnectAttempts
            /\ timers' = timers
            /\ reconnectTimeout' = reconnectTimeout
            /\ intervals' = intervals
            /\ isConnectedRef' = isConnectedRef]_vars

\* C28: at most one keepalive interval is active.
C28_OneKeepalive == Cardinality(ActiveIntervals) <= 1

\* C29: the reconnect counter is in 0..5, and a reconnect timer is pending
\* only while the counter is at least 1.
C29_CounterRangeAndTimer ==
    /\ reconnectAttempts \in 0..maxReconnectAttempts
    /\ timers # <<>> => reconnectAttempts >= 1

IsReply(e, r) == e.kind = "response" /\ e.r = r
IsRefreshReply(e, r) == e.kind = "refresh" /\ e.r = r

\* C30: for each request at most one refresh is started and the request is
\* sent at most twice, the second time only after its refresh; a 401 for the
\* replay rejects the request and starts no refresh; a failed refresh leaves
\* no token in the storage and rejects the request.
C30_BoundedRefresh ==
    [][\A r \in 1..MaxRequests :
         /\ requests'[r].refreshes <= 1
         /\ requests'[r].sends <= 1 + requests'[r].refreshes
         /\ (IsReply(lastResponse', r) /\ lastResponse'.status = 401
             /\ lastResponse'.retried)
              => /\ requests'[r].phase = "rejected"
                 /\ requests'[r].refreshes = requests[r].refreshes
                 /\ requests'[r].sends = requests[r].sends
         /\ (IsRefreshReply(lastResponse', r) /\ ~lastResponse'.ok)
              => /\ localStorage' = NoTokens
                 /\ requests'[r].phase = "rejected"
                 /\ requests'[r].sends = requests[r].sends]_vars

C30_Witness ==
    /\ IsReply(lastResponse, 1)
    /\ lastResponse.status = 401
    /\ lastResponse.retried
    /\ requests[1].phase = "rejected"
    /\ requests[1].sends = 2
    /\ requests[1].refreshes = 1
    /\ localStorage.access = "fresh"

====
